---- MODULE Spec2Model ----
(***************************************************************************)
(* Model of the Bybit signal bot: the two-level threshold strategy         *)
(* (strategies/simple_levels.py, strategies/base.py) and the streaming     *)
(* connector that feeds it (connectors/bybit/websocket.py).                *)
(*                                                                         *)
(* Prices are whole dollars.  Python's None is the empty tuple <<>> for a  *)
(* number and the string "None" for a signal.                              *)
(*                                                                         *)
(* Specifications:                                                         *)
(*   Spec           the strategy called through its public methods         *)
(*   SpecLevels     the same, built with any levels the constructor takes  *)
(*   SpecBot        CryptoBot.run driving the connector, the clock running *)
(*   SpecBotLive    the same on a frozen clock, with a fair event loop     *)
(*   SpecConnector  connect() and disconnect() called in any order         *)
(*   SpecEvents     add_callback and _emit_event                           *)
(*   SpecStats      check_signal on the event loop thread, statement by    *)
(*                  statement, and get_stats on the status HTTP thread     *)
(*   SpecFeed       the bot fed operational and other non-ticker messages  *)
(*   SpecMain       the process from main.py to its exit code, with the    *)
(*                  health check task, on a frozen clock                   *)
(***************************************************************************)
EXTENDS Integers, Sequences, FiniteSets, TLC

\* ------------------------------------------------------------------------
\* Bounds and inputs
\* ------------------------------------------------------------------------

\* longest recorded run of check_signal calls between two resets
MaxCalls == 5

\* prices fed to check_signal: those of the specification's two scenarios
\* and the default buy level; 26999 and 25999 are the levels of the second
\* pair of LevelPairs
Prices == {25900, 25999, 26999, 27000, 27001, 27050, 27100}

\* (buy, sell) arguments of update_levels: two valid pairs, one with equal
\* levels, one with the levels swapped
LevelPairs == {<<27000, 26000>>, <<26999, 25999>>, <<26000, 26000>>, <<26000, 27000>>}

\* config.py defaults of BUY_LEVEL, SELL_LEVEL and RECONNECT_DELAY
BUY_LEVEL == 27000
SELL_LEVEL == 26000
RECONNECT_DELAY == 5

\* values of RECONNECT_DELAY the bot is started with: the default, and one
\* whose multiples reach the ceiling of the delay
ReconnectDelays == {RECONNECT_DELAY, 20}

NoNumber == <<>>

\* supervision loops (_connection_loop tasks) that can be alive at once
MaxTasks == 2
Tasks == 1..MaxTasks

\* inbound messages handled over the connector's lifetime
MaxMessages == 2

\* connection failures counted before the model stops failing connections
MaxReconnects == 6

\* connect() and disconnect() calls made on the connector
MaxApiCalls == 3

\* handlers registered for one event type
MaxCallbacks == 2

\* clock readings (seconds since the connector was built) the model tells apart
Instants == {0, 30, 300, 86400, 86430}

\* the part of datetime.timedelta that .seconds reads
SecondsPerDay == 86400

VARIABLES
    \* SimpleLevelsStrategy
    buy_level, sell_level, last_signal, last_price, signal_count,
    \* observation of the calls made on the strategy
    call,        \* <<name, arguments>> of the last call
    ret,         \* what the last call returned or raised
    fed,         \* prices passed to check_signal since construction or the last reset
    returned,    \* what check_signal returned for each of them
    \* BybitWebSocketConnector
    running, is_connected,
    websocket,           \* 0: None, t: the transport task t holds, -1: a transport already closed
    reconnect_count, consecutive_errors,
    total_messages, last_update,
    ws_last_price,       \* the connector's last_price
    \* the event loop
    pc,                  \* where each _connection_loop task is suspended
    transport,           \* state of the transport each task opened
    now,                 \* datetime.now()
    message,             \* the last frame _handle_message was given
    \* CryptoBot
    bot_running, startup_message_sent,
    bot_pc,              \* where CryptoBot.run is suspended
    reconnect_delay,     \* the reconnect_delay the connector was configured with
    \* observation of the connector
    last_tick,           \* datetime.now() when the last ticker frame was handled
    sleeping,            \* seconds of the asyncio.sleep _connection_loop is in, 0 if none
    \* the caller of connect() and disconnect()
    api_calls,           \* the calls made so far, in order
    api_pc,              \* where the caller is suspended
    \* BaseWebSocketConnector: events
    callbacks,           \* event type -> handlers in registration order
    emit,                \* where _emit_event is suspended
    invoked,             \* the handlers the current or last _emit_event has called
    \* TelegramConnector
    attempt,             \* the attempt _send_with_retry is at for each task, 0 if none
    startup_sends,       \* how many times _send_startup_message has been called
    signal_message,      \* <<action, price>> of the _send_signal_message each task awaits, <<>> if none
    \* the process
    configured,          \* TELEGRAM_TOKEN and TELEGRAM_CHAT_ID are set
    feed,                \* the frames the feed sends in this run
    run_calls,           \* what CryptoBot has called on the connectors and tasks, in order
    health_pc,           \* where the _health_check_loop task is suspended
    bybit_healthy,       \* the bybit_healthy of the health check cycle in progress
    exit_code,           \* the exit code of the process, <<>> while it runs
    \* the event loop thread inside _emit_signal, the status HTTP thread
    emitting,            \* <<>>, or the _emit_signal call in progress and its next statement
    get_stats_pc,        \* where the get_stats call of the HTTP thread is
    snapshot,            \* the fields get_stats has read so far
    seen                 \* the strategy states between complete calls since get_stats began

levels == <<buy_level, sell_level>>
stats == <<last_signal, last_price, signal_count>>
svars == <<buy_level, sell_level, last_signal, last_price, signal_count>>
ovars == <<call, ret, fed, returned>>
cvars == <<running, is_connected, websocket, reconnect_count, consecutive_errors,
           total_messages, last_update, ws_last_price>>
evars == <<pc, transport, now, message>>
bvars == <<bot_running, startup_message_sent, bot_pc>>
wvars == <<last_tick, sleeping>>
avars == <<api_calls, api_pc>>
kvars == <<callbacks, emit, invoked>>
nvars == <<attempt, startup_sends, signal_message>>
rvars == <<run_calls, health_pc, bybit_healthy, exit_code>>
hvars == <<emitting, get_stats_pc, snapshot, seen>>
settings == <<reconnect_delay, configured, feed>>
vars == <<svars, ovars, cvars, evars, bvars, wvars, avars, kvars, nvars, rvars, hvars, settings>>

\* ------------------------------------------------------------------------
\* strategies/base.py, strategies/simple_levels.py
\* ------------------------------------------------------------------------

\* BaseStrategy.__init__ and SimpleLevelsStrategy.__init__ as called by
\* strategies/__init__.py: no arguments, so both levels come from config.py
StrategyInit ==
    /\ buy_level = BUY_LEVEL
    /\ sell_level = SELL_LEVEL
    /\ last_signal = "None"
    /\ last_price = NoNumber
    /\ signal_count = 0

\* a constructor that does not validate the levels
SimpleLevelsStrategy_unchecked(buy, sell) == <<buy, sell>>

\* SimpleLevelsStrategy.__init__ with both levels given (or taken from
\* config.py): the levels of the new strategy, <<>> when it raises ValueError
\* and no strategy exists
SimpleLevelsStrategy(buy, sell) ==
    IF buy <= sell THEN <<>> ELSE <<buy, sell>>

\* _emit_signal that forgets to record the signal it emits
_emit_signal_forgets(signal, price) ==
    /\ UNCHANGED last_signal
    /\ last_price' = <<price>>
    /\ signal_count' = signal_count + 1
    /\ ret' = signal

\* _emit_signal that does not count the signal
_emit_signal_uncounted(signal, price) ==
    /\ last_signal' = signal
    /\ last_price' = <<price>>
    /\ UNCHANGED signal_count
    /\ ret' = signal

\* BaseStrategy._emit_signal
_emit_signal(signal, price) ==
    /\ last_signal' = signal
    /\ last_price' = <<price>>
    /\ signal_count' = signal_count + 1
    /\ ret' = signal

\* a classification whose comparisons include the levels themselves
current_signal_inclusive(price) ==
    IF price >= buy_level THEN "BUY"
    ELSE IF price <= sell_level THEN "SELL"
    ELSE "None"

\* the classification at the head of check_signal
current_signal(price) ==
    IF price > buy_level THEN "BUY"
    ELSE IF price < sell_level THEN "SELL"
    ELSE "None"

\* check_signal that records the price of every call, signal or not
check_signal_tracks_price(price) ==
    /\ IF current_signal(price) # "None" /\ current_signal(price) # last_signal
         THEN _emit_signal(current_signal(price), price)
         ELSE /\ ret' = "None"
              /\ last_price' = <<price>>
              /\ UNCHANGED <<last_signal, signal_count>>
    /\ UNCHANGED levels

\* SimpleLevelsStrategy.check_signal
check_signal(price) ==
    /\ IF current_signal(price) # "None" /\ current_signal(price) # last_signal
         THEN _emit_signal(current_signal(price), price)
         ELSE /\ ret' = "None"
              /\ UNCHANGED stats
    /\ UNCHANGED levels

\* reset that leaves the price of the last signal in place
reset_keeps_price ==
    /\ last_signal' = "None"
    /\ UNCHANGED last_price
    /\ signal_count' = 0

\* reset that leaves the duplicate guard armed
reset_keeps_signal ==
    /\ UNCHANGED last_signal
    /\ last_price' = NoNumber
    /\ signal_count' = 0

\* reset as in the legacy TradingStrategy (strategy.py): the count survives
reset_keeps_count ==
    /\ last_signal' = "None"
    /\ last_price' = NoNumber
    /\ UNCHANGED signal_count

\* BaseStrategy.reset
reset ==
    /\ last_signal' = "None"
    /\ last_price' = NoNumber
    /\ signal_count' = 0

\* update_levels whose validation lets equal levels through
update_levels_strict(buy, sell) ==
    IF buy < sell
      THEN /\ ret' = "ValueError"
           /\ UNCHANGED svars
      ELSE /\ buy_level' = buy
           /\ sell_level' = sell
           /\ reset
           /\ ret' = "None"

\* SimpleLevelsStrategy.update_levels
update_levels(buy, sell) ==
    IF buy <= sell
      THEN /\ ret' = "ValueError"
           /\ UNCHANGED svars
      ELSE /\ buy_level' = buy
           /\ sell_level' = sell
           /\ reset
           /\ ret' = "None"

\* ------------------------------------------------------------------------
\* Inbound frames (connectors/bybit/websocket.py, _handle_message)
\* ------------------------------------------------------------------------

\* JSON values carry their Python type; a string is its characters
JStr(chars) == [t |-> "str", v |-> chars]
JDict(fields) == [t |-> "dict", v |-> fields]
JTrue == [t |-> "bool", v |-> TRUE]
JList(items) == [t |-> "list", v |-> items]

Ticker(chars) == JDict([topic |-> JStr(<<"t">>),
                        data |-> JDict([lastPrice |-> JStr(chars)])])

\* the frames the feed sends: text that is not JSON, the subscription
\* acknowledgement, and tickers whose lastPrice is "27001", "25999", "-1",
\* "" and "2x"; then a pong, a message whose data has no lastPrice, one
\* whose data is a list, and a JSON string
Frames == <<
    [json |-> FALSE, value |-> JStr(<<>>)],
    [json |-> TRUE, value |-> JDict([op |-> JStr(<<"s">>), success |-> JTrue])],
    [json |-> TRUE, value |-> Ticker(<<"2", "7", "0", "0", "1">>)],
    [json |-> TRUE, value |-> Ticker(<<"2", "5", "9", "9", "9">>)],
    [json |-> TRUE, value |-> Ticker(<<"-", "1">>)],
    [json |-> TRUE, value |-> Ticker(<<>>)],
    [json |-> TRUE, value |-> Ticker(<<"2", "x">>)],
    [json |-> TRUE, value |-> JDict([op |-> JStr(<<"p">>), success |-> JTrue,
                                     ret_msg |-> JStr(<<"p">>)])],
    [json |-> TRUE, value |-> JDict([topic |-> JStr(<<"t">>),
                                     data |-> JDict([symbol |-> JStr(<<"B">>)])])],
    [json |-> TRUE, value |-> JDict([topic |-> JStr(<<"t">>),
                                     data |-> JList(<<JStr(<<"2", "7", "0", "0", "1">>)>>)])],
    [json |-> TRUE, value |-> JStr(<<"l", "a", "s", "t", "P", "r", "i", "c", "e">>)] >>

\* the frames of a run of the bot, and those of a run that looks at how
\* messages are told apart: the acknowledgement, a ticker, and the four
\* messages that are no tickers
BotFrames == 1..7
FeedFrames == {2, 3, 8, 9, 10, 11}

NoFrame == 0

DigitValue == [c \in {"0", "1", "2", "3", "4", "5", "6", "7", "8", "9"} |->
                 CASE c = "0" -> 0 [] c = "1" -> 1 [] c = "2" -> 2 [] c = "3" -> 3
                   [] c = "4" -> 4 [] c = "5" -> 5 [] c = "6" -> 6 [] c = "7" -> 7
                   [] c = "8" -> 8 [] c = "9" -> 9]

RECURSIVE Digits(_)
\* the number a run of decimal digits denotes, <<>> if a character is no digit
Digits(chars) ==
    IF chars = <<>> THEN <<0>>
    ELSE LET front == Digits(SubSeq(chars, 1, Len(chars) - 1))
             c == chars[Len(chars)]
         IN  IF front = <<>> \/ c \notin DOMAIN DigitValue THEN <<>>
             ELSE <<front[1] * 10 + DigitValue[c]>>

\* float(price_str) on a whole number: <<value>>, or <<>> for ValueError
float(chars) ==
    IF chars = <<>> THEN <<>>
    ELSE IF chars[1] = "-"
      THEN IF Len(chars) = 1 \/ Digits(Tail(chars)) = <<>> THEN <<>>
           ELSE <<0 - Digits(Tail(chars))[1]>>
    ELSE Digits(chars)

\* json.loads: the parsed value, <<>> for JSONDecodeError
json_loads(frame) == IF Frames[frame].json THEN <<Frames[frame].value>> ELSE <<>>

\* BybitWebSocketConnector._is_ticker_data
_is_ticker_data(data) ==
    /\ data.t = "dict"
    /\ "data" \in DOMAIN data.v
    /\ data.v.data.t = "dict"
    /\ "lastPrice" \in DOMAIN data.v.data.v

\* the price _handle_ticker_data puts in the price_update event, <<>> when
\* it returns early (empty lastPrice) or float() raises
event_price(data) ==
    LET price_str == data.v.data.v.lastPrice
    IN  IF price_str.v = <<>> THEN <<>> ELSE float(price_str.v)

\* the price_update event a frame leads to, <<>> if it leads to none
price_update(frame) ==
    IF json_loads(frame) = <<>> THEN <<>>
    ELSE IF ~_is_ticker_data(json_loads(frame)[1]) THEN <<>>
    ELSE event_price(json_loads(frame)[1])

\* the frame is a message carrying data.lastPrice
IsTick(frame) ==
    /\ json_loads(frame) # <<>>
    /\ _is_ticker_data(json_loads(frame)[1])

\* an _on_price_update registered twice for price_update: the strategy sees
\* every price twice, and the notification follows the second answer
_on_price_update_twice(price) ==
    /\ IF current_signal(price) # "None" /\ current_signal(price) # last_signal
         THEN /\ last_signal' = current_signal(price)
              /\ last_price' = <<price>>
              /\ signal_count' = signal_count + 1
         ELSE UNCHANGED stats
    /\ ret' = "None"
    /\ UNCHANGED levels

\* CryptoBot._on_price_update, up to the await of the notification
_on_price_update(price) == check_signal(price)

\* BybitWebSocketConnector._handle_ticker_data
_handle_ticker_data(data) ==
    IF event_price(data) = <<>>
      THEN UNCHANGED <<ws_last_price, svars, ret>>
      ELSE /\ ws_last_price' = event_price(data)
           /\ _on_price_update(event_price(data)[1])

\* a _handle_message that takes a message without a price for a price of 0
_handle_message_defaults_price(frame) ==
    /\ message' = frame
    /\ IF json_loads(frame) = <<>>
         THEN UNCHANGED <<total_messages, last_update, ws_last_price, svars, ret>>
         ELSE /\ total_messages' = total_messages + 1
              /\ last_update' = <<now>>
              /\ IF _is_ticker_data(json_loads(frame)[1])
                   THEN _handle_ticker_data(json_loads(frame)[1])
                   ELSE /\ ws_last_price' = <<0>>
                        /\ _on_price_update(0)

\* a _handle_message that counts a message before it parses it
_handle_message_counts_first(frame) ==
    /\ message' = frame
    /\ total_messages' = total_messages + 1
    /\ last_update' = <<now>>
    /\ IF json_loads(frame) = <<>>
         THEN UNCHANGED <<ws_last_price, svars, ret>>
         ELSE IF _is_ticker_data(json_loads(frame)[1])
           THEN _handle_ticker_data(json_loads(frame)[1])
           ELSE UNCHANGED <<ws_last_price, svars, ret>>

\* BybitWebSocketConnector._handle_message
_handle_message(frame) ==
    /\ message' = frame
    /\ IF json_loads(frame) = <<>>
         THEN UNCHANGED <<total_messages, last_update, ws_last_price, svars, ret>>
         ELSE /\ total_messages' = total_messages + 1
              /\ last_update' = <<now>>
              /\ IF _is_ticker_data(json_loads(frame)[1])
                   THEN _handle_ticker_data(json_loads(frame)[1])
                   ELSE UNCHANGED <<ws_last_price, svars, ret>>

\* ------------------------------------------------------------------------
\* BybitWebSocketConnector: health
\* ------------------------------------------------------------------------

\* recv_timeout as CryptoBot._init_connectors configures it
recv_timeout == 30

\* the staleness window inside is_healthy
health_timeout == 300

\* timedelta.seconds of a difference of d whole seconds
timedelta_seconds(d) == d % SecondsPerDay

\* BybitWebSocketConnector.is_healthy
is_healthy ==
    IF ~running THEN FALSE
    ELSE IF ~is_connected THEN FALSE
    ELSE IF last_update # NoNumber
      THEN timedelta_seconds(now - last_update[1]) < health_timeout
    ELSE FALSE

\* ------------------------------------------------------------------------
\* BybitWebSocketConnector: lifecycle and the supervision loop.  Each task
\* runs _connection_loop; pc is the await it is suspended at:
\*   start        created by connect(), not yet scheduled
\*   handshake    websockets.connect
\*   subscribe    websocket.send of the subscribe request
\*   send_startup the startup notification awaited inside the connected event
\*   recv         wait_for(websocket.recv())
\*   ping         websocket.ping() after a receive timeout
\*   send_signal  the signal notification awaited inside the price_update event
\*   closing_ok   leaving "async with" after _message_loop returned
\*   closing_err  leaving "async with" with an exception
\*   sleep        the backoff sleep      cooldown  the long sleep
\*   done         the task has ended     none      no task in this slot
\* ------------------------------------------------------------------------

max_consecutive_errors == 5

\* the ceiling of the computed delay and the long sleep of _connection_loop
max_delay == 60
cooldown == 120

\* _connection_loop: the delay computed after the errors-th consecutive error
delay(errors) ==
    IF reconnect_delay * errors < max_delay THEN reconnect_delay * errors
    ELSE max_delay

\* event types: the two the connector emits, and one nothing is registered for
EventTypes == {"connected", "price_update", "other"}

\* the handlers: the two of CryptoBot, and one more
Handlers == {"_on_bybit_connected", "_on_price_update", "callback"}

\* max_retries as CryptoBot._init_connectors configures the notification sink
max_retries == 3

\* how an awaited notification ends: send_message returned True, returned
\* False, or an exception left it
SendOutcomes == {"sent", "failed", "raised"}

\* no _emit_event is in progress
NoEmit == [at |-> "idle", type |-> "", next |-> 0]

\* BybitWebSocketConnector.__init__, CryptoBot.__init__ with _setup_callbacks
BotInit ==
    /\ running = FALSE
    /\ is_connected = FALSE
    /\ websocket = 0
    /\ reconnect_count = 0
    /\ consecutive_errors = 0
    /\ total_messages = 0
    /\ last_update = NoNumber
    /\ ws_last_price = NoNumber
    /\ pc = [t \in Tasks |-> "none"]
    /\ transport = [t \in Tasks |-> "none"]
    /\ now = 0
    /\ message = NoFrame
    /\ bot_running = TRUE
    /\ startup_message_sent = FALSE
    /\ last_tick = NoNumber
    /\ sleeping = 0
    /\ api_calls = <<>>
    /\ api_pc = "idle"
    /\ callbacks = [type \in EventTypes |->
                      CASE type = "connected" -> <<"_on_bybit_connected">>
                        [] type = "price_update" -> <<"_on_price_update">>
                        [] OTHER -> <<>>]
    /\ emit = NoEmit
    /\ invoked = <<>>
    /\ attempt = [t \in Tasks |-> 0]
    /\ startup_sends = 0
    /\ signal_message = [t \in Tasks |-> <<>>]
    /\ run_calls = <<>>
    /\ health_pc = "none"
    /\ bybit_healthy = NoNumber
    /\ exit_code = NoNumber
    /\ emitting = <<>>
    /\ get_stats_pc = "idle"
    /\ snapshot = <<>>
    /\ seen = {}

Goto(t, label) == pc' = [pc EXCEPT ![t] = label]

\* send_message is awaited: _send_with_retry makes its first attempt
send_message(t) == attempt' = [attempt EXCEPT ![t] = 1]

\* CryptoBot._send_signal_message is awaited with the signal check_signal
\* returned and the price of the event
send_signal_message(t, action, price) ==
    signal_message' = [signal_message EXCEPT ![t] = <<action, price>>]

\* _send_with_retry returns False only after the last attempt
send_ends(t, outcome) == outcome = "failed" => attempt[t] = max_retries

\* the awaited notification is over
send_over(t) == attempt' = [attempt EXCEPT ![t] = 0]

\* connect that starts a supervision loop without looking at running
connect_always ==
    /\ running' = TRUE
    /\ \E t \in Tasks :
          /\ pc[t] \in {"none", "done"}
          /\ \A u \in Tasks : u < t => pc[u] \notin {"none", "done"}
          /\ Goto(t, "start")

\* BybitWebSocketConnector.connect
connect ==
    IF running
      THEN UNCHANGED <<running, pc>>
      ELSE /\ running' = TRUE
           /\ \E t \in Tasks :
                 /\ pc[t] \in {"none", "done"}
                 /\ \A u \in Tasks : u < t => pc[u] \notin {"none", "done"}
                 /\ Goto(t, "start")

\* BybitWebSocketConnector.disconnect up to "await self.websocket.close()"
disconnect_close ==
    /\ running' = FALSE
    /\ transport' = [t \in Tasks |->
                       IF websocket = t /\ transport[t] \in {"open", "lost"}
                         THEN "closed" ELSE transport[t]]

\* _connection_loop: the test of "while self.running"
_connection_loop(t) ==
    IF running THEN Goto(t, "handshake") ELSE Goto(t, "done")

\* an except branch that ends the loop at the ceiling of consecutive errors
connection_error_gives_up(t) ==
    IF running
      THEN /\ consecutive_errors' = consecutive_errors + 1
           /\ reconnect_count' = reconnect_count + 1
           /\ is_connected' = FALSE
           /\ IF consecutive_errors + 1 >= max_consecutive_errors
                THEN Goto(t, "done") /\ UNCHANGED sleeping
                ELSE Goto(t, "sleep") /\ sleeping' = delay(consecutive_errors + 1)
      ELSE /\ UNCHANGED <<consecutive_errors, reconnect_count, is_connected, sleeping>>
           /\ _connection_loop(t)

\* _connection_loop: the except branch
connection_error(t) ==
    IF running
      THEN /\ consecutive_errors' = consecutive_errors + 1
           /\ reconnect_count' = reconnect_count + 1
           /\ is_connected' = FALSE
           /\ IF consecutive_errors + 1 >= max_consecutive_errors
                THEN Goto(t, "cooldown") /\ sleeping' = cooldown
                ELSE Goto(t, "sleep") /\ sleeping' = delay(consecutive_errors + 1)
      ELSE /\ UNCHANGED <<consecutive_errors, reconnect_count, is_connected, sleeping>>
           /\ _connection_loop(t)

\* leaving the "async with websockets.connect(...)" block closes the transport
leave_connection(t, label) ==
    /\ Goto(t, label)
    /\ transport' = [transport EXCEPT ![t] = "closed"]
    /\ websocket' = IF websocket = t THEN -1 ELSE websocket

\* _message_loop: the test of "while self.running and self.is_connected"
_message_loop(t, connected) ==
    IF running /\ connected
      THEN /\ Goto(t, "recv")
           /\ UNCHANGED <<transport, websocket>>
      ELSE leave_connection(t, "closing_ok")

\* the task is scheduled for the first time
LoopStart(t) ==
    /\ pc[t] = "start"
    /\ _connection_loop(t)
    /\ UNCHANGED <<svars, ovars, cvars, transport, now, message, bvars>>
    /\ UNCHANGED <<wvars, avars, kvars, nvars, rvars, hvars, settings>>

\* websockets.connect returns a transport
HandshakeOk(t) ==
    /\ pc[t] = "handshake"
    /\ websocket' = t
    /\ transport' = [transport EXCEPT ![t] = "open"]
    /\ Goto(t, "subscribe")
    /\ UNCHANGED <<svars, ovars, running, is_connected, reconnect_count,
                   consecutive_errors, total_messages, last_update,
                   ws_last_price, now, message, bvars>>
    /\ UNCHANGED <<wvars, avars, kvars, nvars, rvars, hvars, settings>>

\* websockets.connect raises
HandshakeFail(t) ==
    /\ pc[t] = "handshake"
    /\ reconnect_count < MaxReconnects
    /\ connection_error(t)
    /\ UNCHANGED <<svars, ovars, running, websocket, total_messages, last_update,
                   ws_last_price, transport, now, message, bvars>>
    /\ UNCHANGED <<last_tick, avars, kvars, nvars, rvars, hvars, settings>>

\* _subscribe_to_tickers returns: the rest of _handle_websocket_connection
\* up to the first await of the connected event or of the message loop
SubscribeOk(t) ==
    /\ pc[t] = "subscribe"
    /\ transport[t] = "open"
    /\ is_connected' = TRUE
    /\ reconnect_count' = 0
    /\ IF ~startup_message_sent
         THEN /\ Goto(t, "send_startup")
              /\ send_message(t)
              /\ startup_sends' = startup_sends + 1
              /\ UNCHANGED <<transport, websocket, signal_message>>
         ELSE /\ _message_loop(t, TRUE)
              /\ UNCHANGED nvars
    /\ UNCHANGED <<svars, ovars, running, consecutive_errors, total_messages,
                   last_update, ws_last_price, now, message, bvars>>
    /\ UNCHANGED <<wvars, avars, kvars, rvars, hvars, settings>>

\* websocket.send raises because the transport is gone
SubscribeFail(t) ==
    /\ pc[t] = "subscribe"
    /\ transport[t] # "open"
    /\ leave_connection(t, "closing_err")
    /\ UNCHANGED <<svars, ovars, running, is_connected, reconnect_count,
                   consecutive_errors, total_messages, last_update,
                   ws_last_price, now, message, bvars>>
    /\ UNCHANGED <<wvars, avars, kvars, nvars, rvars, hvars, settings>>

\* TelegramConnector._send_with_retry: an attempt fails and, retry_delay
\* later, the next one is made
SendRetry(t) ==
    /\ pc[t] \in {"send_startup", "send_signal"}
    /\ attempt[t] < max_retries
    /\ attempt' = [attempt EXCEPT ![t] = @ + 1]
    /\ UNCHANGED <<svars, ovars, cvars, evars, bvars>>
    /\ UNCHANGED <<wvars, avars, kvars, startup_sends, signal_message, rvars, hvars, settings>>

\* an _on_bybit_connected that sets the flag only when the notification
\* was sent
_send_startup_message_until_sent(t, outcome) ==
    /\ pc[t] = "send_startup"
    /\ send_ends(t, outcome)
    /\ send_over(t)
    /\ startup_message_sent' = (outcome = "sent")
    /\ _message_loop(t, is_connected)
    /\ UNCHANGED <<svars, ovars, running, is_connected, reconnect_count,
                   consecutive_errors, total_messages, last_update,
                   ws_last_price, now, message, bot_running, bot_pc>>
    /\ UNCHANGED <<wvars, avars, kvars, startup_sends, signal_message, rvars, hvars, settings>>

\* CryptoBot._send_startup_message ends with the outcome, which it logs;
\* the rest of _on_bybit_connected
_send_startup_message(t, outcome) ==
    /\ pc[t] = "send_startup"
    /\ send_ends(t, outcome)
    /\ send_over(t)
    /\ startup_message_sent' = TRUE
    /\ _message_loop(t, is_connected)
    /\ UNCHANGED <<svars, ovars, running, is_connected, reconnect_count,
                   consecutive_errors, total_messages, last_update,
                   ws_last_price, now, message, bot_running, bot_pc>>
    /\ UNCHANGED <<wvars, avars, kvars, startup_sends, signal_message, rvars, hvars, settings>>

\* the startup notification awaited inside the connected event is over
StartupSent(t) == \E outcome \in SendOutcomes : _send_startup_message(t, outcome)

\* a receive step in which a frame that is no JSON ends the connection
Receive_raises(t) ==
    \E frame \in feed :
        /\ pc[t] = "recv"
        /\ transport[t] = "open"
        /\ total_messages < MaxMessages
        /\ _handle_message(frame)
        /\ last_tick' = IF IsTick(frame) THEN <<now>> ELSE last_tick
        /\ IF json_loads(frame) = <<>>
             THEN leave_connection(t, "closing_err") /\ UNCHANGED <<attempt, signal_message>>
             ELSE IF price_update(frame) # <<>> /\ ret' # "None"
               THEN /\ Goto(t, "send_signal")
                    /\ send_message(t)
                    /\ send_signal_message(t, ret', price_update(frame)[1])
                    /\ UNCHANGED <<transport, websocket>>
               ELSE /\ _message_loop(t, is_connected)
                    /\ UNCHANGED <<attempt, signal_message>>
        /\ UNCHANGED <<call, fed, returned, running, is_connected, reconnect_count,
                       consecutive_errors, now, bvars>>
        /\ UNCHANGED <<sleeping, avars, kvars, startup_sends, rvars, hvars, settings>>

\* recv returns a frame
Receive(t) ==
    \E frame \in feed :
        /\ pc[t] = "recv"
        /\ transport[t] = "open"
        /\ total_messages < MaxMessages
        /\ _handle_message(frame)
        /\ last_tick' = IF IsTick(frame) THEN <<now>> ELSE last_tick
        /\ IF price_update(frame) # <<>> /\ ret' # "None"
             THEN /\ Goto(t, "send_signal")
                  /\ send_message(t)
                  /\ send_signal_message(t, ret', price_update(frame)[1])
                  /\ UNCHANGED <<transport, websocket>>
             ELSE /\ _message_loop(t, is_connected)
                  /\ UNCHANGED <<attempt, signal_message>>
        /\ UNCHANGED <<call, fed, returned, running, is_connected, reconnect_count,
                       consecutive_errors, now, bvars>>
        /\ UNCHANGED <<sleeping, avars, kvars, startup_sends, rvars, hvars, settings>>

\* a handler that takes a notification it could not send for a lost feed
_send_signal_message_disconnects(t, outcome) ==
    /\ pc[t] = "send_signal"
    /\ send_ends(t, outcome)
    /\ send_over(t)
    /\ signal_message' = [signal_message EXCEPT ![t] = <<>>]
    /\ is_connected' = (is_connected /\ outcome = "sent")
    /\ _message_loop(t, is_connected')
    /\ UNCHANGED <<svars, ovars, running, reconnect_count,
                   consecutive_errors, total_messages, last_update,
                   ws_last_price, now, message, bvars>>
    /\ UNCHANGED <<wvars, avars, kvars, startup_sends, rvars, hvars, settings>>

\* CryptoBot._send_signal_message ends with the outcome, which it logs;
\* _on_price_update, _emit_event and _handle_message return
_send_signal_message(t, outcome) ==
    /\ pc[t] = "send_signal"
    /\ send_ends(t, outcome)
    /\ send_over(t)
    /\ signal_message' = [signal_message EXCEPT ![t] = <<>>]
    /\ UNCHANGED is_connected
    /\ _message_loop(t, is_connected)
    /\ UNCHANGED <<svars, ovars, running, reconnect_count,
                   consecutive_errors, total_messages, last_update,
                   ws_last_price, now, message, bvars>>
    /\ UNCHANGED <<wvars, avars, kvars, startup_sends, rvars, hvars, settings>>

\* the signal notification awaited inside the price_update event is over
SignalSent(t) == \E outcome \in SendOutcomes : _send_signal_message(t, outcome)

\* wait_for times out: no frame for recv_timeout seconds
ReceiveTimeout(t) ==
    /\ pc[t] = "recv"
    /\ last_update # NoNumber => now - last_update[1] >= recv_timeout
    /\ Goto(t, "ping")
    /\ UNCHANGED <<svars, ovars, cvars, transport, now, message, bvars>>
    /\ UNCHANGED <<wvars, avars, kvars, nvars, rvars, hvars, settings>>

\* _message_loop that treats a receive timeout as a lost connection
PingOk_reconnects(t) ==
    /\ pc[t] = "ping"
    /\ transport[t] = "open"
    /\ leave_connection(t, "closing_err")
    /\ UNCHANGED <<svars, ovars, running, is_connected, reconnect_count,
                   consecutive_errors, total_messages, last_update,
                   ws_last_price, now, message, bvars>>
    /\ UNCHANGED <<wvars, avars, kvars, nvars, rvars, hvars, settings>>

\* websocket.ping returns: the transport is open
PingOk(t) ==
    /\ pc[t] = "ping"
    /\ transport[t] = "open"
    /\ _message_loop(t, is_connected)
    /\ UNCHANGED <<svars, ovars, running, is_connected, reconnect_count,
                   consecutive_errors, total_messages, last_update,
                   ws_last_price, now, message, bvars>>
    /\ UNCHANGED <<wvars, avars, kvars, nvars, rvars, hvars, settings>>

\* websocket.ping raises: the transport is gone, "break"
PingFail(t) ==
    /\ pc[t] = "ping"
    /\ transport[t] # "open"
    /\ leave_connection(t, "closing_ok")
    /\ UNCHANGED <<svars, ovars, running, is_connected, reconnect_count,
                   consecutive_errors, total_messages, last_update,
                   ws_last_price, now, message, bvars>>
    /\ UNCHANGED <<wvars, avars, kvars, nvars, rvars, hvars, settings>>

\* recv raises ConnectionClosed
ReceiveClosed(t) ==
    /\ pc[t] = "recv"
    /\ transport[t] # "open"
    /\ is_connected' = FALSE
    /\ leave_connection(t, "closing_ok")
    /\ UNCHANGED <<svars, ovars, running, reconnect_count, consecutive_errors,
                   total_messages, last_update, ws_last_price, now, message, bvars>>
    /\ UNCHANGED <<wvars, avars, kvars, nvars, rvars, hvars, settings>>

\* _connection_loop that keeps consecutive_errors after a connection that ended
ClosedOk_keeps_errors(t) ==
    /\ pc[t] = "closing_ok"
    /\ _connection_loop(t)
    /\ UNCHANGED <<svars, ovars, cvars, transport, now, message, bvars>>
    /\ UNCHANGED <<wvars, avars, kvars, nvars, rvars, hvars, settings>>

\* _handle_websocket_connection has returned to _connection_loop
ClosedOk(t) ==
    /\ pc[t] = "closing_ok"
    /\ consecutive_errors' = 0
    /\ _connection_loop(t)
    /\ UNCHANGED <<svars, ovars, running, is_connected, websocket, reconnect_count,
                   total_messages, last_update, ws_last_price, transport, now,
                   message, bvars>>
    /\ UNCHANGED <<wvars, avars, kvars, nvars, rvars, hvars, settings>>

\* _handle_websocket_connection has raised into _connection_loop
ClosedErr(t) ==
    /\ pc[t] = "closing_err"
    /\ connection_error(t)
    /\ UNCHANGED <<svars, ovars, running, websocket, total_messages, last_update,
                   ws_last_price, transport, now, message, bvars>>
    /\ UNCHANGED <<last_tick, avars, kvars, nvars, rvars, hvars, settings>>

\* the backoff sleep is over
SleepDone(t) ==
    /\ pc[t] = "sleep"
    /\ _connection_loop(t)
    /\ UNCHANGED <<svars, ovars, cvars, transport, now, message, bvars>>
    /\ sleeping' = 0
    /\ UNCHANGED <<last_tick, avars, kvars, nvars, rvars, hvars, settings>>

\* a long sleep after which the count of consecutive errors goes on
CooldownDone_keeps_count(t) ==
    /\ pc[t] = "cooldown"
    /\ _connection_loop(t)
    /\ UNCHANGED <<svars, ovars, running, is_connected, websocket, reconnect_count,
                   total_messages, last_update, ws_last_price, transport, now,
                   message, bvars, consecutive_errors>>
    /\ sleeping' = 0
    /\ UNCHANGED <<last_tick, avars, kvars, nvars, rvars, hvars, settings>>

\* the long sleep is over
CooldownDone(t) ==
    /\ pc[t] = "cooldown"
    /\ consecutive_errors' = 0
    /\ _connection_loop(t)
    /\ UNCHANGED <<svars, ovars, running, is_connected, websocket, reconnect_count,
                   total_messages, last_update, ws_last_price, transport, now,
                   message, bvars>>
    /\ sleeping' = 0
    /\ UNCHANGED <<last_tick, avars, kvars, nvars, rvars, hvars, settings>>

\* the peer or the network ends the connection (no more often than
\* connections are made to fail)
TransportLost(t) ==
    /\ transport[t] = "open"
    /\ reconnect_count < MaxReconnects
    /\ transport' = [transport EXCEPT ![t] = "lost"]
    /\ UNCHANGED <<svars, ovars, cvars, pc, now, message, bvars>>
    /\ UNCHANGED <<wvars, avars, kvars, nvars, rvars, hvars, settings>>

\* time passes
Advance ==
    \E later \in Instants :
        /\ later > now
        /\ now' = later
        /\ UNCHANGED <<svars, ovars, cvars, pc, transport, message, bvars>>
        /\ UNCHANGED <<wvars, avars, kvars, nvars, rvars, hvars, settings>>

\* ------------------------------------------------------------------------
\* CryptoBot.run (app/bot.py).  bot_pc is the await run() is suspended at:
\*   new            main.py has not built the CryptoBot yet
\*   connect_all    _connect_all, waiting for TelegramConnector.connect
\*   main           the wait loop
\*   shutdown       the finally block, before the shutdown notification
\*   disconnecting  inside BybitWebSocketConnector.disconnect, closing
\*   stopped        run() has returned
\*   exited         the process has ended
\* ------------------------------------------------------------------------

\* asyncio.run cancels the tasks that are left when run() returns
teardown ==
    /\ pc' = [t \in Tasks |-> IF pc[t] = "none" THEN "none" ELSE "done"]
    /\ attempt' = [t \in Tasks |-> 0]
    /\ signal_message' = [t \in Tasks |-> <<>>]
    /\ transport' = [t \in Tasks |->
                       IF transport[t] \in {"open", "lost"} THEN "closed"
                       ELSE transport[t]]

\* CryptoBot calls these, in this order; the sink's connect is recorded with
\* what it returned
Calls(names) == run_calls' = run_calls \o names

\* _connect_all: TelegramConnector.connect returns True, the feed is
\* started; run() creates the health check task and enters the wait loop
ConnectAll ==
    /\ bot_pc = "connect_all"
    /\ connect
    /\ health_pc' = "wait"
    /\ Calls(<<"telegram_connector.connect: True", "bybit_connector.connect",
               "_health_check_loop">>)
    /\ bot_pc' = "main"
    /\ UNCHANGED <<svars, ovars, is_connected, websocket, reconnect_count,
                   consecutive_errors, total_messages, last_update, ws_last_price,
                   transport, now, message, bot_running, startup_message_sent>>
    /\ UNCHANGED <<wvars, avars, kvars, nvars, bybit_healthy, exit_code, hvars, settings>>

\* a _connect_all that goes on to the feed without the notification sink
ConnectAllFails_starts_feed ==
    /\ bot_pc = "connect_all"
    /\ connect
    /\ Calls(<<"telegram_connector.connect: False", "bybit_connector.connect">>)
    /\ bot_pc' = "shutdown"
    /\ UNCHANGED <<svars, ovars, is_connected, websocket, reconnect_count,
                   consecutive_errors, total_messages, last_update, ws_last_price,
                   transport, now, message, bot_running, startup_message_sent>>
    /\ UNCHANGED <<wvars, avars, kvars, nvars, health_pc, bybit_healthy,
                   exit_code, hvars, settings>>

\* _connect_all: TelegramConnector.connect returns False, run() returns
\* through its finally block
ConnectAllFails ==
    /\ bot_pc = "connect_all"
    /\ Calls(<<"telegram_connector.connect: False">>)
    /\ bot_pc' = "shutdown"
    /\ UNCHANGED <<svars, ovars, cvars, evars, bot_running, startup_message_sent>>
    /\ UNCHANGED <<wvars, avars, kvars, nvars, health_pc, bybit_healthy,
                   exit_code, hvars, settings>>

\* signal_handler: SIGINT, SIGTERM or SIGHUP
SignalHandler ==
    /\ bot_pc \in {"connect_all", "main"}
    /\ bot_running
    /\ bot_running' = FALSE
    /\ UNCHANGED <<svars, ovars, cvars, evars, startup_message_sent, bot_pc>>
    /\ UNCHANGED <<wvars, avars, kvars, nvars, rvars, hvars, settings>>

\* the wait loop sees running = False: the health check task is cancelled
\* and awaited
MainLoopExit ==
    /\ bot_pc = "main"
    /\ ~bot_running
    /\ health_pc' = IF health_pc = "done" THEN "done" ELSE "cancelled"
    /\ Calls(<<"health_task.cancel">>)
    /\ bot_pc' = "shutdown"
    /\ UNCHANGED <<svars, ovars, cvars, evars, bot_running, startup_message_sent>>
    /\ UNCHANGED <<wvars, avars, kvars, nvars, bybit_healthy, exit_code, hvars, settings>>

\* a finally block that disconnects before it sends the shutdown notification
Shutdown_disconnects_first ==
    /\ bot_pc = "shutdown"
    /\ running' = FALSE
    /\ IF websocket # 0
         THEN /\ disconnect_close
              /\ Calls(<<"bybit_connector.disconnect", "_send_shutdown_message">>)
              /\ bot_pc' = "disconnecting"
              /\ UNCHANGED <<is_connected, pc, attempt, signal_message>>
         ELSE /\ is_connected' = FALSE
              /\ teardown
              /\ Calls(<<"bybit_connector.disconnect", "telegram_connector.disconnect",
                         "_send_shutdown_message">>)
              /\ bot_pc' = "stopped"
    /\ UNCHANGED <<svars, ovars, websocket, reconnect_count, consecutive_errors,
                   total_messages, last_update, ws_last_price, now, message,
                   bot_running, startup_message_sent>>
    /\ UNCHANGED <<wvars, avars, kvars, startup_sends, health_pc, bybit_healthy, exit_code, hvars, settings>>

\* the finally block: the shutdown notification (sent synchronously), then
\* _disconnect_all up to the close awaited inside disconnect
Shutdown ==
    /\ bot_pc = "shutdown"
    /\ running' = FALSE
    /\ IF websocket # 0
         THEN /\ disconnect_close
              /\ Calls(<<"_send_shutdown_message", "bybit_connector.disconnect">>)
              /\ bot_pc' = "disconnecting"
              /\ UNCHANGED <<is_connected, pc, attempt, signal_message>>
         ELSE /\ is_connected' = FALSE
              /\ teardown
              /\ Calls(<<"_send_shutdown_message", "bybit_connector.disconnect",
                         "telegram_connector.disconnect">>)
              /\ bot_pc' = "stopped"
    /\ UNCHANGED <<svars, ovars, websocket, reconnect_count, consecutive_errors,
                   total_messages, last_update, ws_last_price, now, message,
                   bot_running, startup_message_sent>>
    /\ UNCHANGED <<wvars, avars, kvars, startup_sends, health_pc, bybit_healthy, exit_code, hvars, settings>>

\* disconnect after the close, the rest of _disconnect_all, the end of run()
Disconnected ==
    /\ bot_pc = "disconnecting"
    /\ is_connected' = FALSE
    /\ teardown
    /\ Calls(<<"telegram_connector.disconnect">>)
    /\ bot_pc' = "stopped"
    /\ UNCHANGED <<svars, ovars, running, websocket, reconnect_count,
                   consecutive_errors, total_messages, last_update, ws_last_price,
                   now, message, bot_running, startup_message_sent>>
    /\ UNCHANGED <<wvars, avars, kvars, startup_sends, health_pc, bybit_healthy, exit_code, hvars, settings>>

LoopStep(t) ==
    \/ LoopStart(t)
    \/ HandshakeOk(t)
    \/ HandshakeFail(t)
    \/ SubscribeOk(t)
    \/ SubscribeFail(t)
    \/ StartupSent(t)
    \/ SendRetry(t)
    \/ Receive(t)
    \/ SignalSent(t)
    \/ ReceiveTimeout(t)
    \/ PingOk(t)
    \/ PingFail(t)
    \/ ReceiveClosed(t)
    \/ ClosedOk(t)
    \/ ClosedErr(t)
    \/ SleepDone(t)
    \/ CooldownDone(t)
    \/ TransportLost(t)

BotNext ==
    \/ ConnectAll
    \/ ConnectAllFails
    \/ SignalHandler
    \/ MainLoopExit
    \/ Shutdown
    \/ Disconnected
    \/ Advance
    \/ \E t \in Tasks : LoopStep(t)

\* ------------------------------------------------------------------------
\* The strategy driven through its public methods
\* ------------------------------------------------------------------------

Init ==
    /\ StrategyInit
    /\ call = <<"__init__", <<buy_level, sell_level>>>>
    /\ ret = "None"
    /\ fed = <<>>
    /\ returned = <<>>
    /\ BotInit
    /\ bot_pc = "connect_all"
    /\ configured = TRUE
    /\ feed = BotFrames
    /\ reconnect_delay = RECONNECT_DELAY

\* the same with RECONNECT_DELAY taken from the environment
InitBot ==
    /\ StrategyInit
    /\ call = <<"__init__", <<buy_level, sell_level>>>>
    /\ ret = "None"
    /\ fed = <<>>
    /\ returned = <<>>
    /\ BotInit
    /\ bot_pc = "connect_all"
    /\ configured = TRUE
    /\ feed = BotFrames
    /\ reconnect_delay \in ReconnectDelays

\* a strategy constructed with any levels BUY_LEVEL and SELL_LEVEL of the
\* environment that the constructor accepts
InitLevels ==
    /\ \E lv \in LevelPairs :
          /\ SimpleLevelsStrategy(lv[1], lv[2]) # <<>>
          /\ buy_level = SimpleLevelsStrategy(lv[1], lv[2])[1]
          /\ sell_level = SimpleLevelsStrategy(lv[1], lv[2])[2]
    /\ last_signal = "None"
    /\ last_price = NoNumber
    /\ signal_count = 0
    /\ call = <<"__init__", <<buy_level, sell_level>>>>
    /\ ret = "None"
    /\ fed = <<>>
    /\ returned = <<>>
    /\ BotInit
    /\ bot_pc = "connect_all"
    /\ configured = TRUE
    /\ feed = BotFrames
    /\ reconnect_delay = RECONNECT_DELAY

CheckSignal ==
    \E price \in Prices :
        /\ Len(fed) < MaxCalls
        /\ check_signal(price)
        /\ call' = <<"check_signal", <<price>>>>
        /\ fed' = Append(fed, price)
        /\ returned' = Append(returned, ret')
        /\ UNCHANGED <<cvars, evars, bvars>>
        /\ UNCHANGED <<wvars, avars, kvars, nvars, rvars, hvars, settings>>

Reset ==
    /\ reset
    /\ ret' = "None"
    /\ call' = <<"reset", <<>>>>
    /\ fed' = <<>>
    /\ returned' = <<>>
    /\ UNCHANGED levels
    /\ UNCHANGED <<cvars, evars, bvars>>
    /\ UNCHANGED <<wvars, avars, kvars, nvars, rvars, hvars, settings>>

UpdateLevels ==
    \E lv \in LevelPairs :
        /\ update_levels(lv[1], lv[2])
        /\ call' = <<"update_levels", lv>>
        /\ IF ret' = "ValueError"
             THEN UNCHANGED <<fed, returned>>
             ELSE fed' = <<>> /\ returned' = <<>>
        /\ UNCHANGED <<cvars, evars, bvars>>
        /\ UNCHANGED <<wvars, avars, kvars, nvars, rvars, hvars, settings>>

Next ==
    \/ CheckSignal
    \/ Reset
    \/ UpdateLevels

Spec == Init /\ [][Next]_vars

SpecLevels == InitLevels /\ [][Next]_vars

\* ------------------------------------------------------------------------
\* The strategy shared by two threads (strategies/base.py, app/health.py):
\* the event loop thread runs check_signal, the daemon thread of the status
\* HTTP server runs get_stats.  Nothing synchronizes them, so the threads
\* interleave between the statements of _emit_signal and between the
\* attribute reads of get_stats.
\* ------------------------------------------------------------------------

\* the last state of the strategy between two complete calls
Committed == IF emitting = <<>> THEN stats ELSE emitting[1].before

\* check_signal up to the call of _emit_signal, or to its return when there
\* is no signal
ThreadCheck ==
    \E price \in Prices :
        /\ emitting = <<>>
        /\ signal_count < MaxCalls
        /\ IF current_signal(price) # "None" /\ current_signal(price) # last_signal
             THEN /\ emitting' = <<[signal |-> current_signal(price), price |-> price,
                                    at |-> "last_signal", before |-> stats]>>
                  /\ UNCHANGED ret
             ELSE /\ ret' = "None"
                  /\ UNCHANGED emitting
        /\ UNCHANGED <<svars, call, fed, returned, get_stats_pc, snapshot, seen>>
        /\ UNCHANGED <<cvars, evars, bvars, wvars, avars, kvars, nvars, rvars, settings>>

\* _emit_signal: "self.last_signal = signal"
EmitLastSignal ==
    /\ emitting # <<>>
    /\ emitting[1].at = "last_signal"
    /\ last_signal' = emitting[1].signal
    /\ emitting' = <<[emitting[1] EXCEPT !.at = "last_price"]>>
    /\ UNCHANGED <<levels, last_price, signal_count, ovars, get_stats_pc, snapshot, seen>>
    /\ UNCHANGED <<cvars, evars, bvars, wvars, avars, kvars, nvars, rvars, settings>>

\* _emit_signal: "self.last_price = price"
EmitLastPrice ==
    /\ emitting # <<>>
    /\ emitting[1].at = "last_price"
    /\ last_price' = <<emitting[1].price>>
    /\ emitting' = <<[emitting[1] EXCEPT !.at = "signal_count"]>>
    /\ UNCHANGED <<levels, last_signal, signal_count, ovars, get_stats_pc, snapshot, seen>>
    /\ UNCHANGED <<cvars, evars, bvars, wvars, avars, kvars, nvars, rvars, settings>>

\* _emit_signal: "self.signal_count += 1" and the return of check_signal
EmitSignalCount ==
    /\ emitting # <<>>
    /\ emitting[1].at = "signal_count"
    /\ signal_count' = signal_count + 1
    /\ ret' = emitting[1].signal
    /\ emitting' = <<>>
    /\ UNCHANGED <<levels, last_signal, last_price, call, fed, returned,
                   get_stats_pc, snapshot>>
    /\ seen' = IF get_stats_pc = "running" THEN seen \cup {stats'} ELSE seen
    /\ UNCHANGED <<cvars, evars, bvars, wvars, avars, kvars, nvars, rvars, settings>>

\* HealthCheckHandler._handle_health_check calls strategy.get_stats()
GetStats ==
    /\ get_stats_pc = "idle"
    /\ get_stats_pc' = "running"
    /\ snapshot' = <<>>
    /\ seen' = {Committed}
    /\ UNCHANGED <<svars, ovars, emitting>>
    /\ UNCHANGED <<cvars, evars, bvars, wvars, avars, kvars, nvars, rvars, settings>>

\* get_stats reads the next of self.last_signal, self.last_price and
\* self.signal_count, and returns with the third
ReadField ==
    /\ get_stats_pc = "running"
    /\ snapshot' = Append(snapshot, stats[Len(snapshot) + 1])
    /\ get_stats_pc' = IF Len(snapshot) = 2 THEN "returned" ELSE "running"
    /\ UNCHANGED <<svars, ovars, emitting, seen>>
    /\ UNCHANGED <<cvars, evars, bvars, wvars, avars, kvars, nvars, rvars, settings>>

\* _handle_health_check sends the response built from the snapshot
HealthResponse ==
    /\ get_stats_pc = "returned"
    /\ get_stats_pc' = "idle"
    /\ snapshot' = <<>>
    /\ seen' = {}
    /\ UNCHANGED <<svars, ovars, emitting>>
    /\ UNCHANGED <<cvars, evars, bvars, wvars, avars, kvars, nvars, rvars, settings>>

StatsNext ==
    \/ ThreadCheck
    \/ EmitLastSignal
    \/ EmitLastPrice
    \/ EmitSignalCount
    \/ GetStats
    \/ ReadField
    \/ HealthResponse

SpecStats == Init /\ [][StatsNext]_vars

\* ------------------------------------------------------------------------
\* The connector driven through connect() and disconnect() by one caller,
\* in any order and at any point of the supervision loop, on a frozen clock
\* ------------------------------------------------------------------------

\* connect() is called and returns
Connect ==
    /\ api_pc = "idle"
    /\ Len(api_calls) < MaxApiCalls
    /\ api_calls' = Append(api_calls, "connect")
    /\ connect
    /\ UNCHANGED <<svars, ovars, is_connected, websocket, reconnect_count,
                   consecutive_errors, total_messages, last_update, ws_last_price,
                   transport, now, message, bvars, wvars, api_pc, kvars, nvars, rvars, hvars, settings>>

\* disconnect() is called: it returns at once when there is no websocket,
\* otherwise it is suspended in "await self.websocket.close()"
Disconnect ==
    /\ api_pc = "idle"
    /\ Len(api_calls) < MaxApiCalls
    /\ api_calls' = Append(api_calls, "disconnect")
    /\ IF websocket # 0
         THEN /\ disconnect_close
              /\ api_pc' = "closing"
              /\ UNCHANGED is_connected
         ELSE /\ running' = FALSE
              /\ is_connected' = FALSE
              /\ UNCHANGED <<transport, api_pc>>
    /\ UNCHANGED <<svars, ovars, websocket, reconnect_count, consecutive_errors,
                   total_messages, last_update, ws_last_price, pc, now, message,
                   bvars, wvars, kvars, nvars, rvars, hvars, settings>>

\* disconnect() after the close: "self.is_connected = False", return
DisconnectReturn ==
    /\ api_pc = "closing"
    /\ api_pc' = "idle"
    /\ is_connected' = FALSE
    /\ UNCHANGED <<svars, ovars, running, websocket, reconnect_count,
                   consecutive_errors, total_messages, last_update, ws_last_price,
                   evars, bvars, wvars, api_calls, kvars, nvars, rvars, hvars, settings>>

\* the frames the feed sends while the calls are made: text that is not
\* JSON, the acknowledgement and the ticker "27001"
ConnectorFrames == {1, 2, 3}

ConnectorNext ==
    \/ Connect
    \/ Disconnect
    \/ DisconnectReturn
    \/ \E t \in Tasks : LoopStep(t) /\ message' \in ConnectorFrames \cup {NoFrame}

SpecConnector == Init /\ [][ConnectorNext]_vars

\* the steps the event loop owes a task: it runs a task that is ready
\* (created, or back from a connection) and wakes one whose sleep is over
Resume(t) ==
    \/ LoopStart(t)
    \/ ClosedOk(t)
    \/ ClosedErr(t)
    \/ SleepDone(t)
    \/ CooldownDone(t)

\* ------------------------------------------------------------------------
\* BaseWebSocketConnector: add_callback and _emit_event (connectors/base.py).
\* emit.at is where _emit_event is: "idle" before the first call, "calling"
\* with the handler at position emit.next about to run, "returned", or
\* "raised" when an exception left it.
\* ------------------------------------------------------------------------

\* BaseWebSocketConnector.add_callback
add_callback(event_type, callback) ==
    callbacks' = [callbacks EXCEPT ![event_type] = Append(@, callback)]

\* _emit_event: the for loop moves past position i of the list, or ends
next_callback(event_type, i) ==
    IF i < Len(callbacks[event_type])
      THEN [at |-> "calling", type |-> event_type, next |-> i + 1]
      ELSE [at |-> "returned", type |-> event_type, next |-> 0]

\* a loop body without try: the exception of a handler leaves _emit_event
callback_done_propagates(raised) ==
    emit' = IF raised THEN [at |-> "raised", type |-> emit.type, next |-> 0]
            ELSE next_callback(emit.type, emit.next)

\* _emit_event: the handler has returned, or raised and the exception is logged
callback_done(raised) ==
    emit' = next_callback(emit.type, emit.next)

\* add_callback is called
AddCallback ==
    \E event_type \in EventTypes, callback \in Handlers :
        /\ Len(callbacks[event_type]) < MaxCallbacks
        /\ add_callback(event_type, callback)
        /\ UNCHANGED <<svars, ovars, cvars, evars, bvars, wvars, avars, emit,
                       invoked, nvars, rvars, hvars, settings>>

\* _emit_event is called
EmitEvent ==
    \E event_type \in EventTypes :
        /\ emit.at \in {"idle", "returned"}
        /\ emit' = next_callback(event_type, 0)
        /\ invoked' = <<>>
        /\ UNCHANGED <<svars, ovars, cvars, evars, bvars, wvars, avars, callbacks,
                       nvars, rvars, hvars, settings>>

\* the handler at emit.next runs and returns or raises
CallHandler ==
    \E raised \in BOOLEAN :
        /\ emit.at = "calling"
        /\ invoked' = Append(invoked, [handler |-> callbacks[emit.type][emit.next],
                                       raised |-> raised])
        /\ callback_done(raised)
        /\ UNCHANGED <<svars, ovars, cvars, evars, bvars, wvars, avars, callbacks,
                       nvars, rvars, hvars, settings>>

EventsNext ==
    \/ AddCallback
    \/ EmitEvent
    \/ CallHandler

SpecEvents == Init /\ [][EventsNext]_vars

\* the bot as CryptoBot.run drives it
SpecBot == InitBot /\ [][BotNext]_vars

\* the bot on a frozen clock, with the event loop scheduling every task
LiveNext ==
    \/ ConnectAll
    \/ ConnectAllFails
    \/ SignalHandler
    \/ MainLoopExit
    \/ Shutdown
    \/ Disconnected
    \/ \E t \in Tasks : LoopStep(t)

SpecBotLive ==
    /\ Init
    /\ [][LiveNext]_vars
    /\ \A t \in Tasks : WF_vars(Resume(t))

\* the bot on a frozen clock, fed the messages that are and are not tickers
InitFeed ==
    /\ StrategyInit
    /\ call = <<"__init__", <<buy_level, sell_level>>>>
    /\ ret = "None"
    /\ fed = <<>>
    /\ returned = <<>>
    /\ BotInit
    /\ bot_pc = "connect_all"
    /\ configured = TRUE
    /\ feed = FeedFrames
    /\ reconnect_delay = RECONNECT_DELAY

SpecFeed == InitFeed /\ [][LiveNext]_vars

\* ------------------------------------------------------------------------
\* The process (main.py): DetailedMain.run builds the bot, runs run() and
\* exits; the health check task (app/bot.py) runs beside run().  bot_pc is
\* "new" before CryptoBot() and "exited" once the process has ended.
\* health_pc is where the health check task is:
\*   none       not created
\*   wait       created, or in the sleep between two cycles
\*   telegram   in a cycle, the feed checked, waiting for the sink's is_healthy
\*   done       the loop has ended      cancelled  run() has cancelled it
\* ------------------------------------------------------------------------

\* main.py before CryptoBot(), the environment set or not
InitMain ==
    /\ StrategyInit
    /\ call = <<"__init__", <<buy_level, sell_level>>>>
    /\ ret = "None"
    /\ fed = <<>>
    /\ returned = <<>>
    /\ BotInit
    /\ bot_pc = "new"
    /\ configured \in BOOLEAN
    /\ feed = BotFrames
    /\ reconnect_delay = RECONNECT_DELAY

\* CryptoBot(): TelegramConnector.__init__ raises without a token or a chat
\* id, and DetailedMain.run turns the exception into sys.exit(1)
Construct ==
    /\ bot_pc = "new"
    /\ IF configured
         THEN bot_pc' = "connect_all" /\ UNCHANGED exit_code
         ELSE bot_pc' = "exited" /\ exit_code' = <<1>>
    /\ UNCHANGED <<svars, ovars, cvars, evars, bot_running, startup_message_sent>>
    /\ UNCHANGED <<wvars, avars, kvars, nvars, run_calls, health_pc, bybit_healthy,
                   hvars, settings>>

\* run() has returned: asyncio.run returns and the interpreter ends
Exit ==
    /\ bot_pc = "stopped"
    /\ bot_pc' = "exited"
    /\ exit_code' = <<0>>
    /\ UNCHANGED <<svars, ovars, cvars, evars, bot_running, startup_message_sent>>
    /\ UNCHANGED <<wvars, avars, kvars, nvars, run_calls, health_pc, bybit_healthy,
                   hvars, settings>>

\* _health_check_loop: the test of "while self.running" and the check of
\* the feed, up to the await of the sink's is_healthy
HealthCheck ==
    /\ health_pc = "wait"
    /\ IF bot_running
         THEN /\ bybit_healthy' = <<is_healthy>>
              /\ health_pc' = "telegram"
         ELSE /\ health_pc' = "done"
              /\ UNCHANGED bybit_healthy
    /\ UNCHANGED <<svars, ovars, cvars, evars, bvars>>
    /\ UNCHANGED <<wvars, avars, kvars, nvars, run_calls, exit_code, hvars, settings>>

\* _health_check_loop: the sink has answered, the cycle ends in its sleep
HealthSleep ==
    /\ health_pc = "telegram"
    /\ health_pc' = "wait"
    /\ UNCHANGED <<svars, ovars, cvars, evars, bvars>>
    /\ UNCHANGED <<wvars, avars, kvars, nvars, run_calls, bybit_healthy, exit_code,
                   hvars, settings>>

\* the steps of run(): each is the end of an await that ends by itself (a
\* request with a timeout, a sleep of one second, a cancelled task, a close)
RunStep ==
    \/ Construct
    \/ ConnectAll
    \/ ConnectAllFails
    \/ MainLoopExit
    \/ Shutdown
    \/ Disconnected
    \/ Exit

MainNext ==
    \/ Construct
    \/ ConnectAll
    \/ ConnectAllFails
    \/ SignalHandler
    \/ MainLoopExit
    \/ Shutdown
    \/ Disconnected
    \/ Exit
    \/ HealthCheck
    \/ HealthSleep
    \/ \E t \in Tasks : LoopStep(t)

\* the process on a frozen clock, run() and the loop tasks scheduled fairly
SpecMain ==
    /\ InitMain
    /\ [][MainNext]_vars
    /\ WF_vars(RunStep)
    /\ \A t \in Tasks : WF_vars(Resume(t))

\* ------------------------------------------------------------------------
\* Properties of the strategy
\* ------------------------------------------------------------------------

\* the signals check_signal has returned since construction or the last reset
Emitted == SelectSeq(returned, LAMBDA r : r # "None")

IsCheck == call[1] = "check_signal"
Fed == call[2][1]
DeadZone(price) == sell_level <= price /\ price <= buy_level

\* C1: between two resets the signals returned by check_signal alternate:
\* no BUY directly follows a BUY and no SELL directly follows a SELL.
C1_NoDuplicateSignals ==
    \A i \in 1..(Len(Emitted) - 1) : Emitted[i] # Emitted[i + 1]

C1_Witness ==
    /\ Len(fed) = 5
    /\ Len(Emitted) = 3
    /\ returned[2] = "None"
    /\ returned[4] = "None"

\* C2: a price equal to buy_level or to sell_level returns no signal,
\* whatever last_signal is.
C2_BoundaryExclusive ==
    (IsCheck /\ Fed \in {buy_level, sell_level}) => ret = "None"

C2_Witness ==
    /\ IsCheck
    /\ Fed = buy_level
    /\ last_signal = "SELL"
    /\ ret = "None"

\* C3: after construction or a successful update_levels, the first price
\* that classifies is returned as a signal.
C3_ColdStart ==
    \A i \in 1..Len(fed) :
        (/\ ~DeadZone(fed[i])
         /\ \A j \in 1..(i - 1) : DeadZone(fed[j]))
        => /\ returned[i] = (IF fed[i] > buy_level THEN "BUY" ELSE "SELL")

C3_Witness ==
    /\ buy_level = 26999
    /\ IsCheck
    /\ Len(fed) = 2
    /\ DeadZone(fed[1])
    /\ fed[2] > buy_level
    /\ ret = "BUY"

\* C4: update_levels(buy, sell) with buy <= sell raises and changes nothing
\* in the strategy.
C4_InvalidLevelsRejected ==
    [][(call'[1] = "update_levels" /\ call'[2][1] <= call'[2][2])
        => (ret' = "ValueError" /\ UNCHANGED svars)]_vars

C4_Witness ==
    /\ call = <<"update_levels", <<26000, 26000>>>>
    /\ ret = "ValueError"
    /\ last_signal = "BUY"
    /\ signal_count = 2

\* C5 as stated: a successful update_levels replaces the levels, clears
\* last_signal and last_price and keeps signal_count.
C5_UpdateKeepsCount ==
    [][(call'[1] = "update_levels" /\ call'[2][1] > call'[2][2])
        => /\ levels' = call'[2]
           /\ last_signal' = "None"
           /\ last_price' = NoNumber
           /\ signal_count' = signal_count]_vars

\* C5 amended: a successful update_levels replaces the levels, clears
\* last_signal and last_price and sets signal_count to 0.
C5_UpdateResetsAll ==
    [][(call'[1] = "update_levels" /\ call'[2][1] > call'[2][2])
        => /\ levels' = call'[2]
           /\ last_signal' = "None"
           /\ last_price' = NoNumber
           /\ signal_count' = 0
           /\ ret' = "None"]_vars

C5_Witness ==
    /\ call = <<"update_levels", <<26999, 25999>>>>
    /\ levels = <<26999, 25999>>
    /\ stats = <<"None", NoNumber, 0>>

\* C6: a check_signal call that returns no signal leaves last_signal,
\* last_price and signal_count as they were.
C6_NoSignalNoChange ==
    [][(call'[1] = "check_signal" /\ ret' = "None") => UNCHANGED stats]_vars

C6_Witness ==
    /\ IsCheck
    /\ ret = "None"
    /\ Len(fed) = 3
    /\ returned[1] = "BUY"
    /\ DeadZone(fed[2])
    /\ fed[3] > buy_level
    /\ stats = <<"BUY", <<fed[1]>>, 1>>

\* the rule check_signal is specified by, on the state before the call
ReferenceRule(price) ==
    LET kind == IF price > buy_level THEN "BUY"
                ELSE IF price < sell_level THEN "SELL"
                ELSE "None"
    IN  IF kind # "None" /\ kind # last_signal
          THEN /\ ret' = kind
               /\ last_signal' = kind
               /\ last_price' = <<price>>
               /\ signal_count' = signal_count + 1
          ELSE ret' = "None"

ScenarioA == <<26999, 27001, 26999, 25999, 27001>>
ScenarioB == <<27050, 27100, 25900>>

\* C7: every check_signal call follows the reference rule, and with levels
\* (27000, 26000) the two scenarios of the specification give
\* [BUY, SELL, BUY] and BUY (count 1), none, SELL (count 2).
C7_ReferenceRule ==
    /\ [][call'[1] = "check_signal" => ReferenceRule(call'[2][1])]_vars
    /\ [](levels = <<27000, 26000>> =>
            /\ fed = ScenarioA => Emitted = <<"BUY", "SELL", "BUY">>
            /\ fed = SubSeq(ScenarioB, 1, 1) =>
                  returned = <<"BUY">> /\ signal_count = 1
            /\ fed = SubSeq(ScenarioB, 1, 2) =>
                  returned = <<"BUY", "None">> /\ signal_count = 1
            /\ fed = ScenarioB =>
                  returned = <<"BUY", "None", "SELL">> /\ signal_count = 2)

C7_Witness ==
    /\ levels = <<27000, 26000>>
    /\ fed = ScenarioA
    /\ returned = <<"None", "BUY", "None", "SELL", "BUY">>
    /\ signal_count = 3

\* ------------------------------------------------------------------------
\* Properties of the feed: ticks and health
\* ------------------------------------------------------------------------

\* the step handled a frame that json.loads accepted
HandledFrame == total_messages' = total_messages + 1

\* the frame just handled is a ticker whose lastPrice is a negative number
NegativeTick(frame) ==
    /\ frame # NoFrame
    /\ Frames[frame].json
    /\ _is_ticker_data(Frames[frame].value)
    /\ float(Frames[frame].value.v.data.v.lastPrice.v) # <<>>
    /\ float(Frames[frame].value.v.data.v.lastPrice.v)[1] < 0

\* C8: a tick with a negative lastPrice is rejected: it produces no signal
\* and leaves last_signal, last_price and signal_count unchanged.
C8_NegativePriceRejected ==
    [][(HandledFrame /\ NegativeTick(message'))
        => /\ UNCHANGED stats
           /\ \A t \in Tasks : pc'[t] # "send_signal"]_vars

\* the whole seconds since the last handled frame
Elapsed == now - last_update[1]

\* C9: is_healthy is false on a fresh connector, true when running,
\* subscribed and the last message is younger than the window, and false
\* for every age of the last message at or above the window.
C9_HealthWindow ==
    /\ bot_pc = "connect_all" => ~is_healthy
    /\ (running /\ is_connected /\ last_update # NoNumber /\ Elapsed < health_timeout)
          => is_healthy
    /\ (last_update # NoNumber /\ Elapsed >= health_timeout) => ~is_healthy

\* the task is inside _message_loop on the transport it subscribed on
Subscribed(t) == pc[t] \in {"send_startup", "recv", "ping", "send_signal"}

\* C10: whenever is_healthy is true the connector is running and a
\* supervision loop is in the Subscribed phase.
C10_HealthyMeansSubscribed ==
    is_healthy => (running /\ \E t \in Tasks : Subscribed(t))

\* the whole seconds since the last handled ticker frame
TickAge == now - last_tick[1]

\* C11: the staleness is_healthy uses is measured from the last tick: once
\* the last tick is older than the window (and younger than a day),
\* is_healthy is false, whatever other messages arrived since.
C11_StalenessFromLastTick ==
    (/\ last_tick # NoNumber
     /\ TickAge >= health_timeout
     /\ TickAge < SecondsPerDay)
    => ~is_healthy

\* the frame is an operational message: an object with an op field
IsOperational(frame) ==
    /\ frame # NoFrame
    /\ json_loads(frame) # <<>>
    /\ json_loads(frame)[1].t = "dict"
    /\ "op" \in DOMAIN json_loads(frame)[1].v

\* the step passes a price to the price_update handlers or shows that it did
Emitted_price_update ==
    \/ ws_last_price' # ws_last_price
    \/ svars' # svars
    \/ ret' # ret
    \/ \E t \in Tasks : pc[t] # "send_signal" /\ pc'[t] = "send_signal"

\* C26: a handled message that is not an object with a nested data object
\* carrying lastPrice (an acknowledgement, a pong, any other well-formed
\* message) emits no price_update: the connector's last_price and the
\* strategy stay as they are and no notification is sent; an operational
\* message of the feed is never such a ticker.
C26_OnlyTickersEmit ==
    [][HandledFrame =>
        /\ Emitted_price_update => IsTick(message')
        /\ ~IsTick(message') => UNCHANGED <<ws_last_price, svars, ret, attempt>>
        /\ IsOperational(message') => ~IsTick(message')]_vars

\* a ticker gave BUY, and the pong that followed left everything in place
C26_Witness ==
    /\ message = 8
    /\ total_messages = 2
    /\ ws_last_price = <<27001>>
    /\ stats = <<"BUY", <<27001>>, 1>>
    /\ pc[1] = "recv"

\* ------------------------------------------------------------------------
\* Properties of the supervision loop
\* ------------------------------------------------------------------------

\* C12: when a subscription is lost while the connector is running (the
\* socket is closed under recv, or the ping after a timeout fails), the
\* connector clears is_connected, adds one to consecutive_errors and to
\* reconnect_count and sleeps the computed delay (the long sleep at the
\* ceiling) before the next transport is opened.
C12_LostSubscriptionBacksOff ==
    [][\A t \in Tasks :
        /\ (pc[t] \in {"recv", "ping"} /\ pc'[t] = "closing_ok" /\ running)
              => ~is_connected'
        /\ (pc[t] = "closing_ok" /\ pc'[t] # "closing_ok" /\ running) =>
              /\ consecutive_errors' = consecutive_errors + 1
              /\ reconnect_count' = reconnect_count + 1
              /\ pc'[t] \in {"sleep", "cooldown"}
              /\ sleeping' = IF pc'[t] = "sleep" THEN delay(consecutive_errors')
                              ELSE cooldown]_vars

\* the step starts a sleep of _connection_loop after a connection failure
Backoff(t) == pc[t] \notin {"sleep", "cooldown"} /\ pc'[t] \in {"sleep", "cooldown"}

C14_SubscribedMeansNoErrors ==
    (is_connected /\ \E t \in Tasks : Subscribed(t)) => consecutive_errors = 0

\* the frame is text json.loads rejects
Malformed(frame) == frame # NoFrame /\ ~Frames[frame].json

\* the step handled the frame message', different from the one before
Handled(frame) == message' = frame /\ message # frame

\* C15: handling a malformed frame leaves the task in the receive loop on
\* the same transport with the connector's flags, counters and statistics
\* unchanged, and a valid tick handled next updates last_price and is
\* evaluated by the strategy.
C15_MalformedFrameSkipped ==
    [][\A frame \in DOMAIN Frames : Handled(frame) =>
        /\ Malformed(frame) =>
              /\ \A t \in Tasks : pc[t] = "recv" => pc'[t] = "recv"
              /\ UNCHANGED <<cvars, transport, svars>>
        /\ (Malformed(message) /\ price_update(frame) # <<>>) =>
              /\ ws_last_price' = price_update(frame)
              /\ ReferenceRule(price_update(frame)[1])]_vars

\* a tick was handled, then a malformed frame, and the task still receives
\* on the same subscribed transport
C15_Witness ==
    /\ Malformed(message)
    /\ ws_last_price = <<27001>>
    /\ total_messages = 1
    /\ pc[1] = "recv"
    /\ websocket = 1
    /\ transport[1] = "open"
    /\ is_connected
    /\ reconnect_count = 0

\* C16: a receive timeout changes nothing in the connector and only sends
\* a ping; when the ping succeeds the flags and counters stay as they are
\* and, the connector still running and connected, the task receives again
\* on the same transport; the receive loop is left only when the transport
\* is gone or running is false.
C16_TimeoutKeepsConnection ==
    [][\A t \in Tasks :
        /\ (pc[t] = "recv" /\ pc'[t] = "ping") => UNCHANGED <<cvars, transport>>
        /\ (pc[t] = "ping" /\ pc'[t] # "ping" /\ transport[t] = "open") =>
              /\ UNCHANGED <<is_connected, consecutive_errors, reconnect_count>>
              /\ (running /\ is_connected) =>
                    (pc'[t] = "recv" /\ UNCHANGED <<websocket, transport>>)
        /\ (pc[t] \in {"recv", "ping"} /\ pc'[t] \notin {"recv", "ping", "send_signal"})
              => (transport[t] # "open" \/ ~running)]_vars

\* a receive timed out on an open transport and the ping is on its way
C16_Witness ==
    /\ pc[1] = "ping"
    /\ transport[1] = "open"
    /\ running
    /\ is_connected
    /\ total_messages = 1
    /\ now - last_update[1] >= recv_timeout

\* ------------------------------------------------------------------------
\* Properties of connect() and disconnect()
\* ------------------------------------------------------------------------

\* the _connection_loop tasks that have been created and have not ended
LoopTasks == {t \in Tasks : pc[t] \notin {"none", "done"}}

\* the step is a call of the method
Called(method) == api_calls' = Append(api_calls, method)

\* C17: connect() on a running connector leaves running set and starts no
\* supervision loop, and as long as disconnect() has not been called, any
\* number of connect() calls leaves exactly one supervision loop.
C17_ConnectIdempotent ==
    [][/\ (Called("connect") /\ running) => (running' /\ pc' = pc)
       /\ (api_calls' # <<>> /\ \A i \in DOMAIN api_calls' : api_calls'[i] = "connect")
             => Cardinality(LoopTasks') = 1]_vars

\* connect() was called three times while the loop went on to subscribe
\* and receive
C17_Witness ==
    /\ api_calls = <<"connect", "connect", "connect">>
    /\ running
    /\ pc = [t \in Tasks |-> IF t = 1 THEN "recv" ELSE "none"]

\* the last call was disconnect() and it has returned
DisconnectReturned ==
    /\ api_calls # <<>>
    /\ api_calls[Len(api_calls)] = "disconnect"
    /\ api_pc = "idle"

\* C18: from the return of disconnect() until the next connect() call the
\* connector is Disconnected: running is false and is_connected is false,
\* whatever the supervision loop does in the meantime.
C18_DisconnectedStays ==
    DisconnectReturned => (~running /\ ~is_connected)

\* the task is between a connection that ended or failed and the next attempt
Retrying(t) == pc[t] \in {"closing_ok", "closing_err", "sleep", "cooldown"}

\* C19: a supervision loop ends only once running has been set to false,
\* and a loop that is past a failed or ended connection eventually makes
\* the next attempt, unless it ends because running has been cleared.
C19_LoopKeepsRetrying ==
    /\ [][\A t \in Tasks : (pc[t] # "done" /\ pc'[t] = "done") => ~running']_vars
    /\ \A t \in Tasks : Retrying(t) ~> (pc[t] \in {"handshake", "done"})

\* the attempt that follows five failures in a row and the long sleep
C19_Witness ==
    /\ running
    /\ pc[1] = "handshake"
    /\ reconnect_count = max_consecutive_errors
    /\ consecutive_errors = 0
    /\ bot_pc = "main"

\* ------------------------------------------------------------------------
\* Properties of the event dispatch
\* ------------------------------------------------------------------------

\* the first n handlers registered for the type of the emitted event have
\* been called, once each and in registration order, and no other
CalledInOrder(n) ==
    /\ Len(invoked') = n
    /\ \A i \in 1..n : invoked'[i].handler = callbacks'[emit'.type][i]

\* C20: _emit_event never ends with the exception of a handler; while it
\* runs it has called the handlers before the current one in registration
\* order, and in the step in which it returns it has called every handler
\* registered for the type once, in registration order, and no other.
C20_EmitCallsAllInOrder ==
    [][/\ emit'.at # "raised"
       /\ emit'.at = "calling" => CalledInOrder(emit'.next - 1)
       /\ (emit'.at = "returned" /\ ~UNCHANGED <<emit, invoked>>)
             => CalledInOrder(Len(callbacks'[emit'.type]))]_vars

\* a connected event whose first handler raised and whose second handler
\* was still called, the price_update handler left alone
C20_Witness ==
    /\ emit = [at |-> "returned", type |-> "connected", next |-> 0]
    /\ callbacks["connected"] = <<"_on_bybit_connected", "callback">>
    /\ callbacks["price_update"] = <<"_on_price_update">>
    /\ invoked = <<[handler |-> "_on_bybit_connected", raised |-> TRUE],
                   [handler |-> "callback", raised |-> FALSE]>>

\* ------------------------------------------------------------------------
\* Properties of the notifications
\* ------------------------------------------------------------------------

\* the task awaits a signal notification on a connection that is up, and
\* the feed has a further frame for it
SendingSignal(t) ==
    /\ pc[t] = "send_signal"
    /\ transport[t] = "open"
    /\ running
    /\ is_connected
    /\ total_messages < MaxMessages

\* C21: while a signal notification (with its retries) is in progress, the
\* receive loop can take and handle the next inbound frame.
C21_SendDoesNotBlockIngestion ==
    \A t \in Tasks : SendingSignal(t) => ENABLED Receive(t)

\* the send can end with this outcome at the attempt it is at
CanEnd(t, outcome) == pc[t] = "send_signal" /\ send_ends(t, outcome)

\* C22: however a signal notification ends (sent, not sent, exception), the
\* step leaves last_signal, last_price, signal_count, is_connected,
\* consecutive_errors, reconnect_count and total_messages unchanged, and the
\* state it leads to is the one every other outcome leads to.
C22_SendOutcomeHasNoEffect ==
    [][\A t \in Tasks, outcome \in SendOutcomes :
        _send_signal_message(t, outcome) =>
            /\ UNCHANGED <<stats, is_connected, consecutive_errors, reconnect_count,
                           total_messages>>
            /\ \A other \in SendOutcomes :
                  CanEnd(t, other) => _send_signal_message(t, other)]_vars

\* a first signal notification has ended, the next tick was taken and gave
\* the opposite signal, whose notification is on its way
C22_Witness ==
    /\ attempt[1] = 1
    /\ pc[1] = "send_signal"
    /\ signal_count = 2
    /\ total_messages = 2
    /\ last_signal = "SELL"
    /\ is_connected

\* ------------------------------------------------------------------------
\* Properties of the process: health checks, startup, shutdown, exit code
\* ------------------------------------------------------------------------

\* the call is in the log of CryptoBot's calls
Has(log, name) == \E i \in DOMAIN log : log[i] = name

\* every occurrence of the second call in the log comes after one of the first
Before(first, second) ==
    \A j \in DOMAIN run_calls :
        run_calls[j] = second => \E i \in 1..(j - 1) : run_calls[i] = first

\* a health check cycle ends: both connectors are checked, the sleep begins
CycleEnds == health_pc = "telegram" /\ health_pc' = "wait"

\* the log ends with a disconnect and a connect of the feed
Recovered ==
    /\ Len(run_calls') >= 2
    /\ run_calls'[Len(run_calls') - 1] = "bybit_connector.disconnect"
    /\ run_calls'[Len(run_calls')] = "bybit_connector.connect"

\* C23: a health check cycle that found the feed unhealthy has made one
\* recovery attempt, disconnect() then connect() on the connector, by the
\* time it ends, and a cycle that found it healthy has made none.
C23_UnhealthyCycleRecovers ==
    [][CycleEnds =>
        /\ bybit_healthy = <<FALSE>> => Recovered
        /\ bybit_healthy = <<TRUE>> => ~Recovered]_vars

\* the shutdown trigger has fired and the process has not ended
ShuttingDown == ~bot_running /\ bot_pc \notin {"new", "exited"}

\* the health check task is not running: never created, ended or cancelled
HealthStopped == health_pc \in {"none", "done", "cancelled"}

\* both connectors have been disconnected
DisconnectedAll ==
    /\ Has(run_calls, "bybit_connector.disconnect")
    /\ Has(run_calls, "telegram_connector.disconnect")

\* C24: once the shutdown trigger has cleared the running flag, the
\* orchestrator eventually has both connectors disconnected; the health
\* check task is stopped before the shutdown notification is attempted, the
\* notification is attempted before either connector is disconnected, and
\* the feed is disconnected before the sink.
C24_ShutdownOrder ==
    /\ [](/\ Has(run_calls, "_send_shutdown_message") => HealthStopped
          /\ Has(run_calls, "_health_check_loop") =>
                Before("health_task.cancel", "_send_shutdown_message")
          /\ Before("_send_shutdown_message", "bybit_connector.disconnect")
          /\ Before("_send_shutdown_message", "telegram_connector.disconnect")
          /\ Before("bybit_connector.disconnect", "telegram_connector.disconnect"))
    /\ ShuttingDown ~> (DisconnectedAll /\ HealthStopped)

\* the signal came in the wait loop with the feed subscribed; the health
\* check task was cancelled in the middle of a cycle and all is disconnected
C24_Witness ==
    /\ ~bot_running
    /\ bot_pc = "stopped"
    /\ health_pc = "cancelled"
    /\ bybit_healthy = <<TRUE>>
    /\ run_calls = <<"telegram_connector.connect: True", "bybit_connector.connect",
                     "_health_check_loop", "health_task.cancel",
                     "_send_shutdown_message", "bybit_connector.disconnect",
                     "telegram_connector.disconnect">>

\* C25: the feed's connect() is called only right after the sink's connect()
\* has returned True, and once the sink's connect() has returned False no
\* supervision loop and no health check task is ever started.
C25_SinkBeforeFeed ==
    /\ \A i \in DOMAIN run_calls :
          run_calls[i] = "bybit_connector.connect" =>
              (i > 1 /\ run_calls[i - 1] = "telegram_connector.connect: True")
    /\ (\E t \in Tasks : pc[t] # "none") => Has(run_calls, "bybit_connector.connect")
    /\ Has(run_calls, "telegram_connector.connect: False") =>
          /\ \A t \in Tasks : pc[t] = "none"
          /\ ~running
          /\ health_pc = "none"
          /\ ~Has(run_calls, "_health_check_loop")

\* the sink did not connect and run() has gone through its finally block
C25_Witness ==
    /\ bot_pc = "stopped"
    /\ bot_running
    /\ run_calls = <<"telegram_connector.connect: False", "_send_shutdown_message",
                     "bybit_connector.disconnect", "telegram_connector.disconnect">>

\* C28: the process ends with exit code 0 after a graceful stop, and with a
\* non-zero exit code when the required configuration is missing or the
\* sink fails to connect at startup.
C28_ExitCode ==
    bot_pc = "exited" =>
        /\ Has(run_calls, "telegram_connector.connect: True") => exit_code = <<0>>
        /\ ~configured => (exit_code # NoNumber /\ exit_code # <<0>>)
        /\ Has(run_calls, "telegram_connector.connect: False") =>
              (exit_code # NoNumber /\ exit_code # <<0>>)


\* C27: buy_level > sell_level in every state of the strategy: after
\* construction and after any check_signal, reset or update_levels call, a
\* failed update_levels included.
C27_LevelsOrdered == buy_level > sell_level

\* a strategy built with levels other than the defaults has refused swapped
\* levels after a signal
C27_Witness ==
    /\ call = <<"update_levels", <<26000, 27000>>>>
    /\ ret = "ValueError"
    /\ levels = <<26999, 25999>>
    /\ last_signal = "BUY"
    /\ Len(fed) = MaxCalls

\* the long sleep of task t returns (it is not cancelled by disconnect)
CooldownEnds(t) == pc[t] = "cooldown" /\ pc'[t] # "cooldown" /\ sleeping' = 0

\* C29: the failure that brings consecutive_errors to max_consecutive_errors
\* starts the long sleep of 120 s in place of the computed delay, the long
\* sleep is started by no other failure, consecutive_errors is 0 when it
\* ends, and a failure that finds consecutive_errors at 0 (the next one after
\* a long sleep is such a failure, since only a failure raises the counter)
\* sleeps the base delay.
C29_CooldownAtCeiling ==
    [][\A t \in Tasks :
        /\ (Backoff(t) /\ consecutive_errors' = max_consecutive_errors) =>
              (pc'[t] = "cooldown" /\ sleeping' = cooldown)
        /\ (Backoff(t) /\ pc'[t] = "cooldown") =>
              consecutive_errors' = max_consecutive_errors
        /\ CooldownEnds(t) => consecutive_errors' = 0
        /\ (Backoff(t) /\ consecutive_errors = 0) =>
              (pc'[t] = "sleep" /\ sleeping' = reconnect_delay)
        /\ consecutive_errors' > consecutive_errors =>
              (consecutive_errors' = consecutive_errors + 1 /\ \E u \in Tasks : Backoff(u))]_vars

\* five failures in a row, the long sleep, and a sixth failure that sleeps
\* the base delay
C29_Witness ==
    /\ reconnect_count = max_consecutive_errors + 1
    /\ consecutive_errors = 1
    /\ pc[1] = "sleep"
    /\ sleeping = reconnect_delay
    /\ ~startup_message_sent

\* the connected event is emitted for task t
ConnectedEvent(t) == pc[t] = "subscribe" /\ is_connected' /\ pc'[t] # "subscribe"

\* C30: the startup notification is attempted on the first connected event,
\* and _send_startup_message is called at most once in the lifetime of the
\* process: a connected event after the first calls it no more, whatever
\* the outcome of the first attempt.
C30_StartupOnce ==
    /\ [](startup_sends <= 1)
    /\ [][\A t \in Tasks : ConnectedEvent(t) =>
            IF startup_sends = 0
              THEN startup_sends' = 1 /\ pc'[t] = "send_startup" /\ attempt'[t] = 1
              ELSE UNCHANGED startup_sends /\ pc'[t] # "send_startup"]_vars

\* the startup notification was attempted during a connection that handled
\* two messages and was lost; a connection attempt failed, the next one
\* succeeded, and the loop, about to emit its second connected event, has
\* made no second attempt
C30_Witness ==
    /\ startup_sends = 1
    /\ startup_message_sent
    /\ total_messages = MaxMessages
    /\ reconnect_count = 1
    /\ pc[1] = "subscribe"
    /\ transport[1] = "open"

\* task t starts a _send_signal_message
SignalAttempt(t) == pc[t] # "send_signal" /\ pc'[t] = "send_signal"

\* the strategy emits a signal
SignalEmitted == signal_count' # signal_count

\* what one check_signal call returns for the price in the current state
one_check(price) ==
    IF current_signal(price) # "None" /\ current_signal(price) # last_signal
      THEN current_signal(price) ELSE "None"

\* C31: a handled message that leads to a price_update event is evaluated
\* by the strategy exactly once; a signal the strategy emits starts, in the
\* same step, exactly one _send_signal_message carrying the signal's kind
\* and price, which stay the same until that send is over; no send starts
\* without a signal, and a tick for which check_signal returns none starts
\* none.
C31_SignalsForwardedOnce ==
    [][/\ \A t \in Tasks : (pc[t] = "recv" /\ HandledFrame /\ price_update(message') # <<>>) =>
              /\ ret' = one_check(price_update(message')[1])
              /\ signal_count' = signal_count + (IF ret' = "None" THEN 0 ELSE 1)
              /\ ret' = "None" => (pc'[t] # "send_signal" /\ UNCHANGED <<stats, signal_message>>)
       /\ SignalEmitted =>
              /\ signal_count' = signal_count + 1
              /\ Cardinality({t \in Tasks : SignalAttempt(t)}) = 1
              /\ \A t \in Tasks : SignalAttempt(t) =>
                     /\ signal_message'[t] = <<last_signal', last_price'[1]>>
                     /\ last_price' = price_update(message')
                     /\ attempt'[t] = 1
       /\ \A t \in Tasks :
              /\ SignalAttempt(t) => SignalEmitted
              /\ (pc[t] = "send_signal" /\ pc'[t] = "send_signal") =>
                     signal_message'[t] = signal_message[t]
              /\ pc'[t] # "send_signal" => signal_message'[t] = <<>>]_vars

\* a BUY at 27001 was sent, and the SELL at 25999 that followed is being
\* sent, at its second attempt
C31_Witness ==
    /\ signal_count = 2
    /\ total_messages = 2
    /\ pc[1] = "send_signal"
    /\ signal_message[1] = <<"SELL", 25999>>
    /\ attempt[1] = 2

\* C32: at most one _connection_loop task is active at any time, whatever
\* the order of the connect() and disconnect() calls and wherever the loop
\* is when they are made.
C32_OneSupervisionLoop == Cardinality(LoopTasks) <= 1

\* task t sends the subscribe request on a transport it has just opened
SubscribeRequest(t) == pc[t] = "handshake" /\ pc'[t] = "subscribe"

\* task t handles a message that leads to a price_update event
PriceUpdateEvent(t) ==
    pc[t] = "recv" /\ HandledFrame /\ price_update(message') # <<>>

\* C33: from the return of disconnect() until the next connect() call no
\* supervision loop sends a subscribe request or emits a connected or a
\* price_update event.
C33_QuietAfterDisconnect ==
    [][DisconnectReturned =>
          \A t \in Tasks : ~SubscribeRequest(t) /\ ~ConnectedEvent(t) /\ ~PriceUpdateEvent(t)]_vars

\* C34: consecutive_errors stays between 0 and max_consecutive_errors, under
\* any sequence of connect, disconnect, connection failures and successes.
C34_ErrorsWithinCeiling ==
    0 <= consecutive_errors /\ consecutive_errors <= max_consecutive_errors

\* C35: reconnect_count never decreases during the connector's lifetime (so
\* that it is the total number of reconnections since construction).
C35_ReconnectCountMonotone ==
    [][reconnect_count' >= reconnect_count]_vars

\* C36: every snapshot that get_stats returns to the status HTTP thread is a
\* state the strategy was in between two complete check_signal calls while
\* get_stats ran: it never shows the new last_signal with the previous
\* total_signals or the previous last_price.
C36_SnapshotConsistent ==
    get_stats_pc = "returned" => snapshot \in seen

\* C37: in every state of the strategy between two calls, signal_count is 0
\* exactly when last_signal is none, and last_signal is none exactly when
\* last_price is none.
C37_StatsAgree ==
    /\ (signal_count = 0) <=> (last_signal = "None")
    /\ (last_signal = "None") <=> (last_price = NoNumber)

\* the levels were replaced, which cleared the statistics, and two signals
\* followed
C37_Witness ==
    /\ levels = <<26999, 25999>>
    /\ signal_count = 2
    /\ last_signal = "SELL"
    /\ last_price = <<25900>>
    /\ call[1] = "check_signal"

\* C38: a message that json.loads parses, tick or not, adds exactly one to
\* total_messages and sets last_update to the time it is handled; a message
\* that is no JSON leaves total_messages, last_update and the connector's
\* last_price unchanged; nothing else changes total_messages, which never
\* decreases, reconnects included.
C38_MessageCounters ==
    [][/\ \A t \in Tasks : Receive(t) =>
              IF json_loads(message') # <<>>
                THEN total_messages' = total_messages + 1 /\ last_update' = <<now'>>
                ELSE UNCHANGED <<total_messages, last_update, ws_last_price>>
       /\ total_messages' >= total_messages
       /\ total_messages' # total_messages => \E t \in Tasks : Receive(t)]_vars

\* a ticker was handled at 0; after a lost connection, a failed attempt and
\* a new subscription, half a minute later, a message that is no JSON has
\* been handled
C38_Witness ==
    /\ message = 1
    /\ total_messages = 1
    /\ last_update = <<0>>
    /\ ws_last_price = <<27001>>
    /\ now = 30
    /\ consecutive_errors = 1
    /\ pc[1] = "recv"

====
